---- MODULE Spec2Model ----
(***************************************************************************)
(* A model of the GitHub knowledge-base pipeline:                          *)
(*   processor.py      Graph Builder (process_raw_data) and the            *)
(*                     Technology Classifier (analyze_patch_for_tech)      *)
(*   extractor.py      get_target_repo, extract_pull_requests and the      *)
(*                     rate-limit wait                                     *)
(*   loader_graph.py   load_nodes / load_edges into the graph store        *)
(*   graph_analyzer.py GraphAnalyzer's two read operations                 *)
(*   qa_engine.py      AnswerSynthesizer.generate_answer and               *)
(*                     KnowledgeRetriever.retrieve_context                 *)
(*   loader_vector.py  generate_and_store_embeddings                       *)
(*   ai_app.py         OpenAIRouter.route and the chat loop                *)
(* Strings are TLA+ strings; a text that the code searches or strips is a  *)
(* sequence of tokens.  Python's None is the value None below.             *)
(***************************************************************************)
EXTENDS Integers, Sequences, FiniteSets, Bags, TLC

VARIABLES
    \* process_raw_data (processor.py)
    nodes,          \* the node list being built
    edges,          \* the edge list being built
    seen_nodes,     \* label -> set of ids already emitted
    repo_id,        \* loop variables of the four nested loops
    pr_id,
    author_id,
    commit_id,
    pc,             \* "run" while the loops run, "done" after return
    n_items,        \* number of input records consumed so far
    no_user_prs,    \* history: pull request ids read from a record whose upstream pr.user was absent
    user_prs,       \* history: pull request ids read from a record whose upstream pr.user was present
    \* the graph store (loader_graph.py)
    g_nodes,        \* id property -> [labels, props] of the store's node with that id
    g_rels,         \* bag of relationships [source, type, props, target]
    calls,          \* loader calls made since the store was last empty
    \* query time (graph_analyzer.py, qa_engine.py)
    ret,            \* the last read operation: [op, arg, value, context, llm_before]
    llm_calls,      \* number of chat.completions.create calls made
    llm_last,       \* the last call's prompt context and the content it returned
    \* the vector store (loader_vector.py, qa_engine.py)
    collection,     \* the collection: id -> stored document
    index_run,      \* the last generate_and_store_embeddings run
    graph_queries,  \* number of session.run calls made by _graph_enrichment
    retrieved,      \* the last retrieve_context call
    \* the chat application (ai_app.py)
    messages,       \* st.session_state.messages: the conversation history
    rpc,            \* position of the chat script within the current question
    turn,           \* local variables of the running route call
    events,         \* history: the calls made for each question, in order
    displayed,      \* what the chat surface rendered for each question
    \* the extractor (extractor.py)
    upstream,       \* the pull requests the repository's listing yields, in order
    ex_pc,          \* position of the extractor script
    ex_i,           \* number of pull requests the loop has taken from the iterator
    ex_data,        \* extract_pull_requests' result list pr_data
    ex_hist,        \* history: what happened to each pull request and repository fetch
    \* the classifier called on its own (processor.py)
    cl_patch,       \* the argument of the last analyze_patch_for_tech call
    cl_found        \* what the call returned

buildVars == <<nodes, edges, seen_nodes, repo_id, pr_id, author_id, commit_id,
               pc, n_items, no_user_prs, user_prs>>
storeVars == <<g_nodes, g_rels, calls>>
queryVars == <<ret, llm_calls, llm_last>>
vectorVars == <<collection, index_run, graph_queries, retrieved>>
routerVars == <<messages, rpc, turn, events, displayed>>
extractVars == <<upstream, ex_pc, ex_i, ex_data, ex_hist>>
classifyVars == <<cl_patch, cl_found>>
vars == <<buildVars, storeVars, queryVars, vectorVars, routerVars, extractVars, classifyVars>>

-----------------------------------------------------------------------------
(* Bounds of the model *)

\* input records (repositories, pull requests, commits, files) one run consumes
MaxItems == 5

\* loader calls (load_nodes, load_edges) made on a store before it is cleared
MaxCalls == 4

\* commits of the pull request in the stores the read operations are run on
MaxCommits == 11

\* language-model calls of one session
MaxLLMCalls == 3

-----------------------------------------------------------------------------
(* Values *)

None == "<None>"

\* Python truthiness of a string-or-None value: None and "" are falsy
Truthy(v) == v # None /\ v # ""

Labels == {"Repo", "User", "PullRequest", "Commit", "File", "Technology"}

-----------------------------------------------------------------------------
(* Technology Classifier: processor.py *)

\* re.IGNORECASE: the tokens of the model that differ only by case
Lower(tok) ==
    CASE tok = "IMPORT" -> "import"
      [] tok = "Torch"  -> "torch"
      [] tok = "FROM"   -> "from"
      [] OTHER          -> tok

\* a quoted module name: [\'"]name[\'"]
Quoted(tok, name) == Lower(tok) \in {"'" \o name \o "'", "\"" \o name \o "\""}

\* import\s+.*\s+from\s+['"]react['"] : "import", anything on the line, "from", 'react'
MatchReact(text) ==
    \E i, j \in DOMAIN text :
        /\ Lower(text[i]) = "import"
        /\ j >= i + 2
        /\ Lower(text[j]) = "from"
        /\ j + 1 \in DOMAIN text
        /\ Quoted(text[j + 1], "react")
        /\ \A k \in i..j : text[k] # "\n"

\* import\s+pandas\s+as
MatchPandas(text) ==
    \E i \in DOMAIN text :
        /\ i + 2 \in DOMAIN text
        /\ Lower(text[i]) = "import"
        /\ Lower(text[i + 1]) = "pandas"
        /\ Lower(text[i + 2]) = "as"

\* import\s+torch
MatchPyTorch(text) ==
    \E i \in DOMAIN text :
        /\ i + 1 \in DOMAIN text
        /\ Lower(text[i]) = "import"
        /\ Lower(text[i + 1]) = "torch"

\* the catalog entries the model carries
TECHNOLOGY_PATTERNS == {"React", "Pandas", "PyTorch"}

PatternMatches(tech, text) ==
    CASE tech = "React"   -> MatchReact(text)
      [] tech = "Pandas"  -> MatchPandas(text)
      [] tech = "PyTorch" -> MatchPyTorch(text)

\* a patch is [present, text]: file_data.get('patch') is None when present is FALSE
NoPatch == [present |-> FALSE, text |-> <<>>]
PatchOf(text) == [present |-> TRUE, text |-> text]

\* analyze_patch_for_tech with precedence between the entries: the loop stops
\* at the first pattern that matches
analyze_patch_for_tech_FirstMatch(patch_text) ==
    IF ~patch_text.present \/ patch_text.text = <<>>
    THEN {}
    ELSE IF MatchReact(patch_text.text) THEN {"React"}
    ELSE IF MatchPandas(patch_text.text) THEN {"Pandas"}
    ELSE IF MatchPyTorch(patch_text.text) THEN {"PyTorch"}
    ELSE {}

\* for tech, pattern in TECHNOLOGY_PATTERNS.items():
\*     if re.search(pattern, patch_text, re.IGNORECASE): found_tech.add(tech)
analyze_patch_for_tech(patch_text) ==
    IF ~patch_text.present \/ patch_text.text = <<>>
    THEN {}
    ELSE {tech \in TECHNOLOGY_PATTERNS : PatternMatches(tech, patch_text.text)}

-----------------------------------------------------------------------------
(* Raw activity records: the JSON extractor.py writes and process_raw_data reads *)

\* extract_pull_requests: "author": pr.user.login if pr.user else "N/A"
extract_author(user) == IF user # None THEN user ELSE "N/A"

RepoRecord(full_name) ==
    [full_name |-> full_name, name |-> "r", description |-> None,
     language |-> "TypeScript", url |-> "https://h/" \o full_name]

PRRecord(number, author) ==
    [number |-> number, title |-> "PR " \o ToString(number), body |-> None,
     url |-> "https://h/pull/" \o ToString(number),
     created_at |-> "t" \o ToString(number), merged_at |-> "t" \o ToString(number),
     author |-> author]

\* a commit message is a token sequence; committed_at is an ISO timestamp,
\* modelled by a number (later is larger)
CommitRecord(sha, committed_at) ==
    [sha |-> sha, message |-> <<" ", "msg-" \o sha, "\n">>, committed_at |-> committed_at]

FileRecord(filename, patch) == [filename |-> filename, patch |-> patch]

-----------------------------------------------------------------------------
(* Graph Builder: process_raw_data, processor.py *)

\* the builder's collections as one value: [nodes, edges, seen_nodes]
Builder(ns, es, seen) == [nodes |-> ns, edges |-> es, seen_nodes |-> seen]

EmptyBuilder == Builder(<<>>, <<>>, [l \in Labels |-> {}])

\* AddNode without the seen-set test: every record appends its node
AddNode_NoSeenCheck(st, label, id, properties) ==
    [st EXCEPT !.nodes = Append(@, [id |-> id, label |-> label, properties |-> properties]),
               !.seen_nodes[label] = @ \cup {id}]

\* "if id not in seen_nodes[label]: nodes.append({...}); seen_nodes[label].add(id)"
AddNode(st, label, id, properties) ==
    IF id \notin st.seen_nodes[label]
    THEN [st EXCEPT !.nodes = Append(@, [id |-> id, label |-> label, properties |-> properties]),
                    !.seen_nodes[label] = @ \cup {id}]
    ELSE st

\* edges.append({...}): unconditional
AddEdge(st, edge) == [st EXCEPT !.edges = Append(@, edge)]

PlainEdge(source, target, relationship) ==
    [source |-> source, target |-> target, relationship |-> relationship]

ContributionEdge(author, tech_name, pr, commit) ==
    [source |-> author, target |-> tech_name, relationship |-> "CONTRIBUTED_TO_TECHNOLOGY",
     properties |-> [in_pr |-> pr, in_commit |-> commit]]

\* pr_id = f"{repo_id}/pr/{pr_data['number']}"
PrId(repo, number) == repo \o "/pr/" \o ToString(number)

\* file_id = f"{repo_id}/{file_data['filename']}"
FileId(repo, filename) == repo \o "/" \o filename

\* 1. repository node
StepRepo(st, repo_data) ==
    AddNode(st, "Repo", repo_data.full_name,
            [name |-> repo_data.name, description |-> repo_data.description,
             language |-> repo_data.language, url |-> repo_data.url])

\* 3. the author's User node: "if author_id and author_id not in seen_nodes['User']"
AddUser(st, author) ==
    IF Truthy(author) THEN AddNode(st, "User", author, [login |-> author]) ELSE st

\* the AUTHORED edge: "if author_id: edges.append(...)"
AddAuthored(st, author, pr) ==
    IF Truthy(author) THEN AddEdge(st, PlainEdge(author, pr, "AUTHORED")) ELSE st

\* StepPR with the User node emitted inside the "pull request not seen yet" branch
StepPR_UserOnlyForNewPR(st, repo, pr_data) ==
    LET pr  == PrId(repo, pr_data.number)
        new == pr \notin st.seen_nodes["PullRequest"]
        st1 == AddNode(st, "PullRequest", pr,
                       [title |-> pr_data.title, body |-> pr_data.body, url |-> pr_data.url,
                        created_at |-> pr_data.created_at, merged_at |-> pr_data.merged_at])
        st2 == IF new THEN AddUser(st1, pr_data.author) ELSE st1
    IN  AddAuthored(st2, pr_data.author, pr)

\* 2.-3. one pull request of the current repository
StepPR(st, repo, pr_data) ==
    LET pr  == PrId(repo, pr_data.number)
        st1 == AddNode(st, "PullRequest", pr,
                       [title |-> pr_data.title, body |-> pr_data.body, url |-> pr_data.url,
                        created_at |-> pr_data.created_at, merged_at |-> pr_data.merged_at])
        st2 == AddUser(st1, pr_data.author)
    IN  AddAuthored(st2, pr_data.author, pr)

\* 4. one commit of the current pull request
StepCommit(st, pr, commit_data) ==
    LET st1 == AddNode(st, "Commit", commit_data.sha,
                       [message |-> commit_data.message,
                        committed_at |-> commit_data.committed_at])
    IN  AddEdge(st1, PlainEdge(pr, commit_data.sha, "INCLUDES"))

\* one detected technology of one file: the Technology node, then the edge "if author_id"
StepTech(st, author, pr, commit, tech_name) ==
    LET st1 == AddNode(st, "Technology", tech_name, [name |-> tech_name])
    IN  IF Truthy(author)
        THEN AddEdge(st1, ContributionEdge(author, tech_name, pr, commit))
        ELSE st1

\* "for tech_name in technologies", in the order the set is iterated
RECURSIVE StepTechs(_, _, _, _, _)
StepTechs(st, author, pr, commit, order) ==
    IF order = <<>> THEN st
    ELSE StepTechs(StepTech(st, author, pr, commit, Head(order)),
                   author, pr, commit, Tail(order))

\* the orders in which Python may iterate a set
Orders(S) ==
    {o \in [1..Cardinality(S) -> S] : \A i, j \in 1..Cardinality(S) : i # j => o[i] # o[j]}

\* 5. one file of the current commit
StepFile(st, repo, author, pr, commit, file_data, order) ==
    LET file_id == FileId(repo, file_data.filename)
        st1 == AddNode(st, "File", file_id, [path |-> file_data.filename])
        st2 == AddEdge(st1, PlainEdge(commit, file_id, "MODIFIED"))
    IN  StepTechs(st2, author, pr, commit, order)

-----------------------------------------------------------------------------
(* The inputs of the model *)

RepoNames  == {"o/r"}
PRNumbers  == {1, 2}
Logins     == {"alice", "React"}
Shas       == {"c1", "c2"}
Filenames  == {"App.tsx", "train.py"}

ReactPatch == PatchOf(<<"+", "IMPORT", "React", "from", "'react'", "\n">>)
TorchPatch == PatchOf(<<"+", "import", "Torch", "\n">>)
Patches    == {NoPatch, ReactPatch, TorchPatch}

ShaTime(sha) == IF sha = "c1" THEN 1 ELSE 2

\* the author field of a raw record whose upstream pr.user is `user`: written by
\* extract_pull_requests, or (extracted = FALSE) present in the JSON as it is
RawAuthor(user, extracted) == IF extracted THEN extract_author(user) ELSE user

-----------------------------------------------------------------------------
(* process_raw_data as a state machine: one action per loop body *)

Cur == Builder(nodes, edges, seen_nodes)

SetBuilder(st) ==
    /\ nodes' = st.nodes
    /\ edges' = st.edges
    /\ seen_nodes' = st.seen_nodes

InitBuild ==
    /\ nodes = <<>>
    /\ edges = <<>>
    /\ seen_nodes = [l \in Labels |-> {}]
    /\ repo_id = None
    /\ pr_id = None
    /\ author_id = None
    /\ commit_id = None
    /\ pc = "run"
    /\ n_items = 0
    /\ no_user_prs = {}
    /\ user_prs = {}

\* "for repo_data in data"
ProcessRepo ==
    /\ pc = "run"
    /\ n_items < MaxItems
    /\ \E name \in RepoNames :
        /\ SetBuilder(StepRepo(Cur, RepoRecord(name)))
        /\ repo_id' = name
    /\ pr_id' = None
    /\ author_id' = None
    /\ commit_id' = None
    /\ n_items' = n_items + 1
    /\ UNCHANGED <<pc, no_user_prs, user_prs>>

\* "for pr_data in repo_data['pull_requests']"
ProcessPR ==
    /\ pc = "run"
    /\ n_items < MaxItems
    /\ repo_id # None
    /\ \E number \in PRNumbers, user \in Logins \cup {None}, extracted \in BOOLEAN :
        LET pr_data == PRRecord(number, RawAuthor(user, extracted))
            pr      == PrId(repo_id, number)
        IN  /\ SetBuilder(StepPR(Cur, repo_id, pr_data))
            /\ pr_id' = pr
            /\ author_id' = pr_data.author
            /\ no_user_prs' = IF user = None THEN no_user_prs \cup {pr} ELSE no_user_prs
            /\ user_prs' = IF user # None THEN user_prs \cup {pr} ELSE user_prs
    /\ commit_id' = None
    /\ n_items' = n_items + 1
    /\ UNCHANGED <<repo_id, pc>>

\* "for commit_data in pr_data['commits']"
ProcessCommit ==
    /\ pc = "run"
    /\ n_items < MaxItems
    /\ pr_id # None
    /\ \E sha \in Shas :
        /\ SetBuilder(StepCommit(Cur, pr_id, CommitRecord(sha, ShaTime(sha))))
        /\ commit_id' = sha
    /\ n_items' = n_items + 1
    /\ UNCHANGED <<repo_id, pr_id, author_id, pc, no_user_prs, user_prs>>

\* "for file_data in commit_data['files']"
ProcessFile ==
    /\ pc = "run"
    /\ n_items < MaxItems
    /\ commit_id # None
    /\ \E filename \in Filenames, patch \in Patches :
        \E order \in Orders(analyze_patch_for_tech(patch)) :
            SetBuilder(StepFile(Cur, repo_id, author_id, pr_id, commit_id,
                                FileRecord(filename, patch), order))
    /\ n_items' = n_items + 1
    /\ UNCHANGED <<repo_id, pr_id, author_id, commit_id, pc, no_user_prs, user_prs>>

\* "return nodes, edges"
Return ==
    /\ pc = "run"
    /\ pc' = "done"
    /\ UNCHANGED <<nodes, edges, seen_nodes, repo_id, pr_id, author_id, commit_id,
                   n_items, no_user_prs, user_prs>>

IdleStore == g_nodes = <<>> /\ g_rels = EmptyBag /\ calls = <<>>
IdleQuery ==
    /\ ret = [op |-> "none"]
    /\ llm_calls = 0
    /\ llm_last = [op |-> "none"]

\* the vector store and the chat application before anything ran
IdleVector ==
    /\ collection = <<>>
    /\ index_run = [op |-> "none"]
    /\ graph_queries = 0
    /\ retrieved = [op |-> "none"]

IdleRouter ==
    /\ messages = <<>>
    /\ rpc = "idle"
    /\ turn = [op |-> "none"]
    /\ events = <<>>
    /\ displayed = <<>>

\* the extractor before it ran, and the classifier before it was called on its own
IdleExtract ==
    /\ upstream = <<>>
    /\ ex_pc = "idle"
    /\ ex_i = 0
    /\ ex_data = <<>>
    /\ ex_hist = <<>>

IdleClassify == cl_patch = [op |-> "none"] /\ cl_found = {}

IdleRest == IdleExtract /\ IdleClassify

Init == InitBuild /\ IdleStore /\ IdleQuery /\ IdleVector /\ IdleRouter /\ IdleRest

Next ==
    \/ ProcessRepo /\ UNCHANGED <<storeVars, queryVars, vectorVars, routerVars, extractVars, classifyVars>>
    \/ ProcessPR /\ UNCHANGED <<storeVars, queryVars, vectorVars, routerVars, extractVars, classifyVars>>
    \/ ProcessCommit /\ UNCHANGED <<storeVars, queryVars, vectorVars, routerVars, extractVars, classifyVars>>
    \/ ProcessFile /\ UNCHANGED <<storeVars, queryVars, vectorVars, routerVars, extractVars, classifyVars>>
    \/ Return /\ UNCHANGED <<storeVars, queryVars, vectorVars, routerVars, extractVars, classifyVars>>

Spec == Init /\ [][Next]_vars

-----------------------------------------------------------------------------
(* process_raw_data over a whole input, given as the records in the order the
   nested loops read them *)

RepoItem(name) == [kind |-> "repo", data |-> RepoRecord(name)]
PRItem(number, author) == [kind |-> "pr", data |-> PRRecord(number, author)]
CommitItem(sha, committed_at) == [kind |-> "commit", data |-> CommitRecord(sha, committed_at)]
FileItem(filename, patch, order) ==
    [kind |-> "file", data |-> FileRecord(filename, patch), order |-> order]

RECURSIVE process_items(_, _, _, _, _, _)
process_items(items, st, repo, pr, author, commit) ==
    IF items = <<>> THEN st
    ELSE LET it == Head(items) IN
         CASE it.kind = "repo" ->
                process_items(Tail(items), StepRepo(st, it.data),
                              it.data.full_name, None, None, None)
           [] it.kind = "pr" ->
                process_items(Tail(items), StepPR(st, repo, it.data),
                              repo, PrId(repo, it.data.number), it.data.author, None)
           [] it.kind = "commit" ->
                process_items(Tail(items), StepCommit(st, pr, it.data),
                              repo, pr, author, it.data.sha)
           [] it.kind = "file" ->
                process_items(Tail(items),
                              StepFile(st, repo, author, pr, commit, it.data, it.order),
                              repo, pr, author, commit)

process_raw_data(items) == process_items(items, EmptyBuilder, None, None, None, None)

-----------------------------------------------------------------------------
(* The graph store and its loader: loader_graph.py *)

\* properties that are null in the raw data when the upstream value is absent;
\* "SET n += map" stores no property for a null value
NullableProps == {"description", "language", "body", "merged_at"}

DropNulls(props) ==
    [k \in {k \in DOMAIN props : ~(k \in NullableProps /\ props[k] = None)} |-> props[k]]

\* MERGE (n {id: node_data.id}) SET n += node_data.properties
\* CALL apoc.create.addLabels(n, [node_data.label]): one row of the UNWIND
MergeNode(gn, node_data) ==
    IF node_data.id \in DOMAIN gn
    THEN [gn EXCEPT ![node_data.id] =
             [labels |-> @.labels \cup {node_data.label},
              props  |-> DropNulls(node_data.properties) @@ @.props]]
    ELSE (node_data.id :> [labels |-> {node_data.label},
                           props  |-> DropNulls(node_data.properties)]) @@ gn

\* load_nodes: UNWIND $nodes, row by row
RECURSIVE load_nodes(_, _)
load_nodes(gn, nodes_data) ==
    IF nodes_data = <<>> THEN gn
    ELSE load_nodes(MergeNode(gn, Head(nodes_data)), Tail(nodes_data))

\* edge_data.properties: null when the edge has no "properties" key
EdgeProps(edge_data) ==
    IF "properties" \in DOMAIN edge_data THEN edge_data.properties ELSE <<>>

\* MATCH (source {id: ...}) MATCH (target {id: ...})
\* CALL apoc.create.relationship(source, relationship, properties, target): one row
CreateRelationship(gn, gr, edge_data) ==
    IF edge_data.source \in DOMAIN gn /\ edge_data.target \in DOMAIN gn
    THEN gr (+) SetToBag({[source |-> edge_data.source, type |-> edge_data.relationship,
                           props |-> EdgeProps(edge_data), target |-> edge_data.target]})
    ELSE gr

\* load_edges: UNWIND $edges, row by row
RECURSIVE load_edges(_, _, _)
load_edges(gn, gr, edges_data) ==
    IF edges_data = <<>> THEN gr
    ELSE load_edges(gn, CreateRelationship(gn, gr, Head(edges_data)), Tail(edges_data))

\* the raw inputs whose node and edge lists the loader specification loads: one
\* pull request with one commit and one file, read once or twice in one run
BaseInputs ==
    {<<RepoItem("o/r"), PRItem(1, RawAuthor(user, extracted)),
       CommitItem("c1", 1), FileItem(filename, patch, order)>> :
        user \in Logins \cup {None}, extracted \in BOOLEAN,
        filename \in Filenames,
        patch \in {pt \in Patches : Cardinality(analyze_patch_for_tech(pt)) <= 1},
        order \in {<<>>, <<"React">>, <<"PyTorch">>}}

LoadInputs ==
    LET ok == {items \in BaseInputs :
                  items[4].order \in Orders(analyze_patch_for_tech(items[4].data.patch))}
    IN  ok \cup {items \o items : items \in ok}

\* nodes.json and edges.json as process_raw_data wrote them
InitBatch ==
    \E items \in LoadInputs :
        LET st == process_raw_data(items) IN
        /\ nodes = st.nodes
        /\ edges = st.edges
        /\ seen_nodes = st.seen_nodes
    /\ repo_id = None
    /\ pr_id = None
    /\ author_id = None
    /\ commit_id = None
    /\ pc = "done"
    /\ n_items = 0
    /\ no_user_prs = {}
    /\ user_prs = {}

\* load_nodes(driver, nodes)
LoadNodes ==
    /\ Len(calls) < MaxCalls
    /\ g_nodes' = load_nodes(g_nodes, nodes)
    /\ calls' = Append(calls, "load_nodes")
    /\ UNCHANGED g_rels

\* load_edges(driver, edges)
LoadEdges ==
    /\ Len(calls) < MaxCalls
    /\ g_rels' = load_edges(g_nodes, g_rels, edges)
    /\ calls' = Append(calls, "load_edges")
    /\ UNCHANGED g_nodes

\* session.run("MATCH (n) DETACH DELETE n")
ClearDatabase ==
    /\ calls # <<>>
    /\ g_nodes' = <<>>
    /\ g_rels' = EmptyBag
    /\ calls' = <<>>

InitLoad == InitBatch /\ IdleStore /\ IdleQuery /\ IdleVector /\ IdleRouter /\ IdleRest

NextLoad ==
    \/ LoadNodes /\ UNCHANGED <<buildVars, queryVars, vectorVars, routerVars, extractVars, classifyVars>>
    \/ LoadEdges /\ UNCHANGED <<buildVars, queryVars, vectorVars, routerVars, extractVars, classifyVars>>
    \/ ClearDatabase /\ UNCHANGED <<buildVars, queryVars, vectorVars, routerVars, extractVars, classifyVars>>

SpecLoad == InitLoad /\ [][NextLoad]_vars

-----------------------------------------------------------------------------
(* GraphAnalyzer: graph_analyzer.py *)

\* COLLECT(c.message)[..10]
RecentLimit == 10

NoDataForUser == "No data found for this user."
NoUsersFound(technology_name) ==
    "No users found with contributions to '" \o technology_name \o "'."
NoDataInKB == "I could not find any data in the knowledge base for this query."

\* whitespace tokens of a text
IsSpace(tok) == tok \in {" ", "\n", "\t"}

\* str.strip(): leading and trailing whitespace removed
RECURSIVE LStrip(_)
LStrip(text) ==
    IF text # <<>> /\ IsSpace(Head(text)) THEN LStrip(Tail(text)) ELSE text

RECURSIVE RStrip(_)
RStrip(text) ==
    IF text # <<>> /\ IsSpace(text[Len(text)])
    THEN RStrip(SubSeq(text, 1, Len(text) - 1)) ELSE text

Strip(text) == RStrip(LStrip(text))

\* a property of a store node, null when the node does not have it
Prop(gn, id, key) == IF key \in DOMAIN gn[id].props THEN gn[id].props[key] ELSE None

HasLabel(gn, id, label) == id \in DOMAIN gn /\ label \in gn[id].labels

\* sum of f over a finite set of relationships
RECURSIVE SumCopies(_, _)
SumCopies(gr, S) ==
    IF S = {} THEN 0
    ELSE LET r == CHOOSE r \in S : TRUE IN CopiesIn(r, gr) + SumCopies(gr, S \ {r})

\* MATCH (u)-[r:CONTRIBUTED_TO_TECHNOLOGY]->(t:Technology)
ContributionRels(gn, gr, u) ==
    {r \in BagToSet(gr) : /\ r.source = u
                          /\ r.type = "CONTRIBUTED_TO_TECHNOLOGY"
                          /\ HasLabel(gn, r.target, "Technology")}

\* TechnologyRows as an OPTIONAL MATCH would give it: a row of nulls when nothing matches
TechnologyRows_Optional(gn, gr, u) ==
    LET rels  == ContributionRels(gn, gr, u)
        names == {Prop(gn, r.target, "name") : r \in rels}
    IN  IF rels = {}
        THEN {[technology |-> None, contribution_count |-> 0]}
        ELSE {[technology |-> n,
               contribution_count |->
                   SumCopies(gr, {r \in rels : Prop(gn, r.target, "name") = n})] : n \in names}

\* RETURN t.name AS technology, count(r) AS contribution_count: one row per
\* technology name, no row when nothing matches
TechnologyRows(gn, gr, u) ==
    LET rels  == ContributionRels(gn, gr, u)
        names == {Prop(gn, r.target, "name") : r \in rels}
    IN  {[technology |-> n,
          contribution_count |->
              SumCopies(gr, {r \in rels : Prop(gn, r.target, "name") = n})] : n \in names}

\* ORDER BY contribution_count DESC: any order of the rows that is descending
RankedOrders(rows) ==
    {o \in Orders(rows) :
        \A i, j \in 1..Cardinality(rows) :
            i < j => o[i].contribution_count >= o[j].contribution_count}

\* MATCH (u)-[:AUTHORED]->(:PullRequest)-[:INCLUDES]->(c:Commit): one row per path
CommitPaths(gn, gr, u) ==
    LET authored == {r \in BagToSet(gr) : /\ r.source = u
                                          /\ r.type = "AUTHORED"
                                          /\ HasLabel(gn, r.target, "PullRequest")}
        includes(pr) == {r \in BagToSet(gr) : /\ r.source = pr
                                              /\ r.type = "INCLUDES"
                                              /\ HasLabel(gn, r.target, "Commit")}
    IN  UNION {UNION {{[pr |-> a.target, commit |-> i.target, copy |-> k] :
                          k \in 1..(CopiesIn(a, gr) * CopiesIn(i, gr))} :
                      i \in includes(a.target)} :
               a \in authored}

\* COLLECT(c.message)[..10] has no ORDER BY: the store returns the paths in an
\* order of its own, so the slice may hold any RecentLimit of them
RecentChoices(paths) ==
    IF Cardinality(paths) <= RecentLimit THEN {paths}
    ELSE {S \in SUBSET paths : Cardinality(S) = RecentLimit}

\* the context string: its header and technology lines in order, and the stripped
\* commit messages of the slice (their order in the string is the store's)
UserContext(gn, ranked, chosen) ==
    [head   |-> <<[line |-> "Ranked Technology Contributions:"]>> \o
                SelectSeq(ranked, LAMBDA rec : Truthy(rec.technology)),
     recent |-> {Strip(Prop(gn, path.commit, "message")) : path \in chosen}]

EmptyContext == [head |-> <<>>, recent |-> {}]

\* "if not context"
IsEmptyText(context) == context.head = <<>> /\ context.recent = {}

\* content of response.choices[0].message
LLMReplies == {"an answer", "", None}

\* _synthesize_answer after a read operation that built `context`
Synthesize(op, arg, context) ==
    IF IsEmptyText(context)
    THEN /\ ret' = [op |-> op, arg |-> arg, value |-> NoDataInKB,
                    context |-> context, llm_before |-> llm_calls]
         /\ UNCHANGED <<llm_calls, llm_last>>
    ELSE \E reply \in LLMReplies :
         /\ llm_calls' = llm_calls + 1
         /\ llm_last' = [op |-> op, context |-> context, reply |-> reply]
         /\ ret' = [op |-> op, arg |-> arg, value |-> reply,
                    context |-> context, llm_before |-> llm_calls]

\* an early return of sentinel text
ReturnText(op, arg, text) ==
    /\ ret' = [op |-> op, arg |-> arg, value |-> text,
               context |-> EmptyContext, llm_before |-> llm_calls]
    /\ UNCHANGED <<llm_calls, llm_last>>

UserIds == {"alice", "nobody", "c1"}

\* GraphAnalyzer.get_user_expertise(user_id)
get_user_expertise(user_id) ==
    LET rows  == IF HasLabel(g_nodes, user_id, "User")
                 THEN TechnologyRows(g_nodes, g_rels, user_id) ELSE {}
        paths == CommitPaths(g_nodes, g_rels, user_id)
    IN  IF rows = {}
        THEN ReturnText("get_user_expertise", user_id, NoDataForUser)
        ELSE \E ranked \in RankedOrders(rows), chosen \in RecentChoices(paths) :
                Synthesize("get_user_expertise", user_id,
                           UserContext(g_nodes, ranked, chosen))

GetUserExpertise ==
    /\ llm_calls < MaxLLMCalls
    /\ \E user_id \in UserIds : get_user_expertise(user_id)

\* MATCH (u:User)-[r:CONTRIBUTED_TO_TECHNOLOGY]->(t:Technology {name: $tech_name})
\* RETURN u.id as user, count(r) as contribution_count
ExpertRows(gn, gr, technology_name) ==
    LET rels == {r \in BagToSet(gr) : /\ r.type = "CONTRIBUTED_TO_TECHNOLOGY"
                                      /\ HasLabel(gn, r.source, "User")
                                      /\ HasLabel(gn, r.target, "Technology")
                                      /\ Prop(gn, r.target, "name") = technology_name}
    IN  {[user |-> u, contribution_count |-> SumCopies(gr, {r \in rels : r.source = u})] :
            u \in {r.source : r \in rels}}

\* LIMIT 10
ExpertLimit == 10

TopExperts(ranked) ==
    IF Len(ranked) <= ExpertLimit THEN ranked ELSE SubSeq(ranked, 1, ExpertLimit)

ExpertContext(technology_name, ranked) ==
    [head   |-> <<[line |-> "List of users who contributed", technology |-> technology_name]>>
                \o TopExperts(ranked),
     recent |-> {}]

\* GraphAnalyzer.get_experts_for_technology(technology_name)
get_experts_for_technology(technology_name) ==
    LET rows == ExpertRows(g_nodes, g_rels, technology_name)
    IN  IF rows = {}
        THEN ReturnText("get_experts_for_technology", technology_name,
                        NoUsersFound(technology_name))
        ELSE \E ranked \in RankedOrders(rows) :
                Synthesize("get_experts_for_technology", technology_name,
                           ExpertContext(technology_name, ranked))

GetExpertsForTechnology ==
    /\ llm_calls < MaxLLMCalls
    /\ \E technology_name \in TECHNOLOGY_PATTERNS :
        get_experts_for_technology(technology_name)

\* the raw inputs behind the stores the read operations are run on: one pull
\* request of `count` commits, the last of them with one file
RECURSIVE CommitItems(_)
CommitItems(count) ==
    IF count = 0 THEN <<>>
    ELSE Append(CommitItems(count - 1), CommitItem("c" \o ToString(count), count))

QueryInputs ==
    {<<RepoItem("o/r"), PRItem(1, author)>> \o CommitItems(count)
        \o <<FileItem("App.tsx", patch, order)>> :
        author \in {"alice", None}, count \in 1..MaxCommits,
        patch \in {NoPatch, ReactPatch}, order \in {<<>>, <<"React">>}}

\* a store loaded once from the node and edge lists of such an input
InitLoaded ==
    \E items \in QueryInputs :
        /\ items[Len(items)].order \in Orders(analyze_patch_for_tech(items[Len(items)].data.patch))
        /\ LET st == process_raw_data(items)
               gn == load_nodes(<<>>, st.nodes)
           IN  /\ nodes = st.nodes
               /\ edges = st.edges
               /\ seen_nodes = st.seen_nodes
               /\ g_nodes = gn
               /\ g_rels = load_edges(gn, EmptyBag, st.edges)
    /\ calls = <<"load_nodes", "load_edges">>
    /\ repo_id = None
    /\ pr_id = None
    /\ author_id = None
    /\ commit_id = None
    /\ pc = "done"
    /\ n_items = 0
    /\ no_user_prs = {}
    /\ user_prs = {}

InitQuery == InitLoaded /\ IdleQuery /\ IdleVector /\ IdleRouter /\ IdleRest

NextQuery ==
    \/ GetUserExpertise /\ UNCHANGED <<buildVars, storeVars, vectorVars, routerVars, extractVars, classifyVars>>
    \/ GetExpertsForTechnology /\ UNCHANGED <<buildVars, storeVars, vectorVars, routerVars, extractVars, classifyVars>>

SpecQuery == InitQuery /\ [][NextQuery]_vars

-----------------------------------------------------------------------------
(* AnswerSynthesizer: qa_engine.py *)

NoRelevantInfo ==
    "I couldn't find any relevant information in the knowledge base to answer your question."

\* one evidence line of a context string, as retrieve_context formats it
EvidenceLine(author, node_type, content) ==
    [author |-> author, node_type |-> node_type, content |-> content]

\* the questions and context strings generate_answer is called with; a context
\* string is the sequence of its lines, "" the empty sequence
Questions == {"who knows react?", "what was done on streaming?", "who worked on auth?"}
Contexts ==
    {<<>>,
     <<EvidenceLine("alice", "PullRequest", "PR 1")>>,
     <<EvidenceLine("N/A", "Commit", "msg-c2")>>,
     <<EvidenceLine("alice", "PullRequest", "PR 1"), EvidenceLine("alice", "Commit", "msg-c1")>>}

\* generate_answer with the "if not context" test left out
generate_answer_NoEmptyCheck(query, context) ==
    \E reply \in LLMReplies :
        /\ llm_calls' = llm_calls + 1
        /\ llm_last' = [op |-> "generate_answer", query |-> query,
                        context |-> context, reply |-> reply]
        /\ ret' = [op |-> "generate_answer", arg |-> query, value |-> reply,
                   context |-> context, llm_before |-> llm_calls]

\* AnswerSynthesizer.generate_answer(query, context)
generate_answer(query, context) ==
    IF context = <<>>
    THEN /\ ret' = [op |-> "generate_answer", arg |-> query, value |-> NoRelevantInfo,
                    context |-> context, llm_before |-> llm_calls]
         /\ UNCHANGED <<llm_calls, llm_last>>
    ELSE \E reply \in LLMReplies :
         /\ llm_calls' = llm_calls + 1
         /\ llm_last' = [op |-> "generate_answer", query |-> query,
                         context |-> context, reply |-> reply]
         /\ ret' = [op |-> "generate_answer", arg |-> query, value |-> reply,
                    context |-> context, llm_before |-> llm_calls]

GenerateAnswer ==
    /\ llm_calls < MaxLLMCalls
    /\ \E query \in Questions, context \in Contexts : generate_answer(query, context)

InitSynth == InitBuild /\ IdleStore /\ IdleQuery /\ IdleVector /\ IdleRouter /\ IdleRest

NextSynth == GenerateAnswer /\ UNCHANGED <<buildVars, storeVars, vectorVars, routerVars, extractVars, classifyVars>>

SpecSynth == InitSynth /\ [][NextSynth]_vars

-----------------------------------------------------------------------------
(* The vector collection's documents: loader_vector.py *)

\* properties.get(key, ''): the value, null included, '' when the key is absent
GetOr(properties, key, default) ==
    IF key \in DOMAIN properties THEN properties[key] ELSE default

\* the document string of a node: the texts that fill its template
Document(node) ==
    IF node.label = "PullRequest"
    THEN [template |-> "Title: {}. Body: {}",
          title |-> GetOr(node.properties, "title", ""),
          body |-> GetOr(node.properties, "body", "")]
    ELSE IF node.label = "Commit"
    THEN [template |-> "Commit message: {}",
          message |-> GetOr(node.properties, "message", "")]
    ELSE [template |-> ""]

-----------------------------------------------------------------------------
(* KnowledgeRetriever: qa_engine.py *)

\* def _semantic_search(self, query_text, n_results=10)
NResults == 10

\* collection.query(query_embeddings, n_results)['ids'][0]: the ids of the
\* nearest stored documents, nearest first, as many as there are up to
\* n_results; which documents are nearest is the embedding model's matter
semantic_search(coll, query_text) ==
    LET ids == DOMAIN coll
        k   == IF Cardinality(ids) <= NResults THEN Cardinality(ids) ELSE NResults
    IN  {o \in [1..k -> ids] : \A i, j \in 1..k : i # j => o[i] # o[j]}

\* -[:INCLUDES*0..]->: the nodes reached from `reached` over INCLUDES relationships
RECURSIVE IncludesReach(_, _)
IncludesReach(gr, reached) ==
    LET more == reached \cup
                {r.target : r \in {r \in BagToSet(gr) : /\ r.type = "INCLUDES"
                                                        /\ r.source \in reached}}
    IN  IF more = reached THEN reached ELSE IncludesReach(gr, more)

\* AuthoredPaths with the author made optional: a node nobody authored keeps a
\* row, with a null author and pull request
AuthoredPaths_Optional(gn, gr, id) ==
    LET found == {[author |-> a.source, pr |-> a.target, node |-> id] :
                     a \in {r \in BagToSet(gr) :
                               /\ r.type = "AUTHORED"
                               /\ HasLabel(gn, r.source, "User")
                               /\ HasLabel(gn, r.target, "PullRequest")
                               /\ id \in IncludesReach(gr, {r.target})}}
    IN  IF found = {} THEN {[author |-> None, pr |-> None, node |-> id]} ELSE found

\* MATCH (author:User)-[:AUTHORED]->(pr:PullRequest)-[:INCLUDES*0..]->(node)
\* WITH author, pr, node: the bindings the aggregation groups by
AuthoredPaths(gn, gr, id) ==
    {[author |-> a.source, pr |-> a.target, node |-> id] :
        a \in {r \in BagToSet(gr) :
                  /\ r.type = "AUTHORED"
                  /\ HasLabel(gn, r.source, "User")
                  /\ HasLabel(gn, r.target, "PullRequest")
                  /\ id \in IncludesReach(gr, {r.target})}}

\* TechnologiesInPR without the {in_pr: pr.id} test: every technology of the author
TechnologiesInPR_AnyPR(gn, gr, author, pr) ==
    {name \in {Prop(gn, r.target, "name") :
                  r \in {r \in BagToSet(gr) :
                            /\ r.type = "CONTRIBUTED_TO_TECHNOLOGY"
                            /\ r.source = author
                            /\ HasLabel(gn, r.target, "Technology")}} : name # None}

\* OPTIONAL MATCH (author)-[r:CONTRIBUTED_TO_TECHNOLOGY {in_pr: pr.id}]->(tech:Technology)
\* COLLECT(DISTINCT tech.name): the distinct non-null names
TechnologiesInPR(gn, gr, author, pr) ==
    {name \in {Prop(gn, r.target, "name") :
                  r \in {r \in BagToSet(gr) :
                            /\ r.type = "CONTRIBUTED_TO_TECHNOLOGY"
                            /\ r.source = author
                            /\ HasLabel(gn, r.target, "Technology")
                            /\ "in_pr" \in DOMAIN r.props
                            /\ r.props.in_pr = pr}} : name # None}

\* UNWIND $node_ids AS id MATCH (node {id: id}) ...: the grouped bindings of all ids
EnrichmentBindings(gn, gr, node_ids) ==
    UNION {IF node_ids[i] \in DOMAIN gn THEN AuthoredPaths(gn, gr, node_ids[i]) ELSE {} :
              i \in 1..Len(node_ids)}

\* CASE node_type WHEN 'PullRequest' THEN node.title WHEN 'Commit' THEN node.message
\* ELSE 'N/A' END
ContentOf(gn, node, node_type) ==
    CASE node_type = "PullRequest" -> Prop(gn, node, "title")
      [] node_type = "Commit" -> Prop(gn, node, "message")
      [] OTHER -> "N/A"

\* RETURN author.id AS author, node_type, content, pr.url as pr_url, technologies:
\* one record of the result; node and pr are the bindings it was computed from
EnrichmentRecord(gn, gr, binding, node_type) ==
    [author |-> binding.author, node_type |-> node_type,
     content |-> ContentOf(gn, binding.node, node_type),
     pr_url |-> IF binding.pr = None THEN None ELSE Prop(gn, binding.pr, "url"),
     technologies |-> IF binding.author = None THEN {}
                      ELSE TechnologiesInPR(gn, gr, binding.author, binding.pr),
     node |-> binding.node, pr |-> binding.pr]

\* ', '.join(item['technologies']) if item['technologies'] else 'N/A': the names
\* of the joined text, whose order is the order the store collected them in
JoinTechnologies(technologies) == IF technologies = {} THEN {"N/A"} ELSE technologies

\* "- User '{author}' worked on a {node_type} with content: '{content}'. PR URL:
\* {pr_url}. Involved technologies: {...}.\n"
FormatLine(item) ==
    [author |-> item.author, node_type |-> item.node_type, content |-> item.content,
     pr_url |-> item.pr_url, technologies |-> JoinTechnologies(item.technologies)]

\* labels(node)[0]: the first label of a node, any of them when it has several
FirstLabels(gn, ids) == {f \in [ids -> Labels] : \A id \in ids : f[id] \in gn[id].labels}

\* _graph_enrichment(node_ids): the records of the result, in the order the store
\* returns them (the query has no ORDER BY after its aggregation)
graph_enrichment(gn, gr, node_ids) ==
    LET bindings == EnrichmentBindings(gn, gr, node_ids)
    IN  UNION {{[i \in 1..Cardinality(bindings) |->
                    EnrichmentRecord(gn, gr, o[i], first[o[i].node])] :
                   o \in Orders(bindings)} :
               first \in FirstLabels(gn, {b.node : b \in bindings})}

\* what retrieve_context returned, recorded with what it did
Retrieved(query_text, candidate_ids, enriched_context) ==
    [op |-> "retrieve_context", query |-> query_text, candidate_ids |-> candidate_ids,
     enriched_context |-> enriched_context,
     value |-> [i \in 1..Len(enriched_context) |-> FormatLine(enriched_context[i])],
     queries_before |-> graph_queries]

\* retrieve_context without the "if not candidate_ids" return
retrieve_context_NoEmptyCheck(query_text, candidate_ids) ==
    \E enriched_context \in graph_enrichment(g_nodes, g_rels, candidate_ids) :
        /\ graph_queries' = graph_queries + 1
        /\ retrieved' = Retrieved(query_text, candidate_ids, enriched_context)

\* KnowledgeRetriever.retrieve_context(query_text), after _semantic_search
\* returned candidate_ids
retrieve_context(query_text, candidate_ids) ==
    IF candidate_ids = <<>>
    THEN /\ retrieved' = Retrieved(query_text, candidate_ids, <<>>)
         /\ UNCHANGED graph_queries
    ELSE \E enriched_context \in graph_enrichment(g_nodes, g_rels, candidate_ids) :
         /\ graph_queries' = graph_queries + 1
         /\ retrieved' = Retrieved(query_text, candidate_ids, enriched_context)

\* calls of retrieve_context in one run of the model
MaxRetrievals == 1

RetrieveContext ==
    /\ graph_queries < MaxRetrievals
    /\ \E query_text \in Questions :
        \E candidate_ids \in semantic_search(collection, query_text) :
            retrieve_context(query_text, candidate_ids)
    /\ UNCHANGED <<collection, index_run>>

\* the raw inputs behind the stores retrieve_context is run on: two pull requests
\* of one repository, the first with React work in commit c1, the second with
\* commit c2, whose file has PyTorch work or no patch, and, when `shared`, with
\* commit c1 as well
RetrieveInputs ==
    {<<RepoItem("o/r"), PRItem(1, first), CommitItem("c1", 1),
       FileItem("App.tsx", ReactPatch, <<"React">>), PRItem(2, "alice")>>
        \o (IF shared THEN <<CommitItem("c1", 1)>> ELSE <<>>)
        \o <<CommitItem("c2", 2),
              FileItem("train.py", patch, IF patch = NoPatch THEN <<>> ELSE <<"PyTorch">>)>> :
        first \in {"alice", None}, shared \in BOOLEAN, patch \in {TorchPatch, NoPatch}}

\* a node that was indexed by an earlier run and is not in the graph store
StaleNode ==
    [id |-> "gone", label |-> "Commit", properties |-> [message |-> <<"msg-gone">>]]

\* documents in the collection in one run of the model
MaxDocs == 2

\* a graph store loaded once, and a collection that holds the documents of some
\* of its pull requests and commits and of the stale node
InitRetrieve ==
    /\ \E items \in RetrieveInputs :
        LET st == process_raw_data(items)
            gn == load_nodes(<<>>, st.nodes)
            indexed == {node \in {st.nodes[i] : i \in 1..Len(st.nodes)} \cup {StaleNode} :
                           node.label \in {"PullRequest", "Commit"}}
        IN  /\ nodes = st.nodes
            /\ edges = st.edges
            /\ seen_nodes = st.seen_nodes
            /\ g_nodes = gn
            /\ g_rels = load_edges(gn, EmptyBag, st.edges)
            /\ \E stored \in SUBSET indexed :
                /\ Cardinality(stored) <= MaxDocs
                /\ collection = [id \in {node.id : node \in stored} |->
                                    Document(CHOOSE node \in stored : node.id = id)]
    /\ calls = <<"load_nodes", "load_edges">>
    /\ repo_id = None
    /\ pr_id = None
    /\ author_id = None
    /\ commit_id = None
    /\ pc = "done"
    /\ n_items = 0
    /\ no_user_prs = {}
    /\ user_prs = {}
    /\ index_run = [op |-> "none"]
    /\ graph_queries = 0
    /\ retrieved = [op |-> "none"]
    /\ IdleQuery
    /\ IdleRouter
    /\ IdleRest

NextRetrieve ==
    RetrieveContext /\ UNCHANGED <<buildVars, storeVars, queryVars, routerVars, extractVars, classifyVars>>

SpecRetrieve == InitRetrieve /\ [][NextRetrieve]_vars

-----------------------------------------------------------------------------
(* The chat application: OpenAIRouter.route and the chat loop, ai_app.py *)

Apology == "I apologize, but I couldn't generate a response."

SystemMessage ==
    [role |-> "system", content |-> "You are a helpful engineering knowledge assistant."]

\* the tool catalog sent with the plan call: name -> "required" of its schema
ToolDefinitions ==
    [get_user_expertise |-> {"user_id"},
     get_experts_for_technology |-> {"technology_name"},
     semantic_search_for_concept |-> {"query_text"}]

\* the keys of self.available_tools
available_tools == DOMAIN ToolDefinitions

\* the top-level names the two tool modules define
ModuleDefines ==
    [graph_analyzer |-> {"GraphAnalyzer", "get_user_expertise", "get_experts_for_technology"},
     qa_engine |-> {"KnowledgeRetriever", "AnswerSynthesizer", "openai_client"}]

\* from graph_analyzer import ...; from qa_engine import ...
ImportedFrom ==
    [get_user_expertise |-> "graph_analyzer",
     get_experts_for_technology |-> "graph_analyzer",
     semantic_search_for_concept |-> "qa_engine"]

\* the imported name is bound to a function.  A name its module does not define
\* makes the import statement raise; the chat script is modelled as run with the
\* names that resolve, and a dispatch to a name that does not resolve raises.
Resolves(function_name) == function_name \in ModuleDefines[ImportedFrom[function_name]]

\* the parameters of the tool functions that are defined
Parameters ==
    [get_user_expertise |-> {"user_id"}, get_experts_for_technology |-> {"technology_name"}]

\* tool_call.function.arguments: the text the model wrote, a JSON object or not
JsonObject(value) == [json |-> "object", value |-> value]
Malformed == [json |-> "malformed", value |-> <<>>]

\* json.loads(tool_call.function.arguments)
json_loads(arguments) ==
    IF arguments.json = "object"
    THEN [ok |-> TRUE, value |-> arguments.value]
    ELSE [ok |-> FALSE, value |-> <<>>]

ToolCall(id, name, arguments) == [id |-> id, name |-> name, arguments |-> arguments]

\* the tool calls a plan response may carry, for the question numbered q
PlanToolCalls(q) ==
    LET id1 == "call_" \o ToString(q) \o "_1"
        id2 == "call_" \o ToString(q) \o "_2"
        user == ToolCall(id1, "get_user_expertise", JsonObject([user_id |-> "alice"]))
        tech == ToolCall(id2, "get_experts_for_technology",
                         JsonObject([technology_name |-> "React"]))
    IN  {<<>>,
         <<user>>,
         <<ToolCall(id1, "get_user_expertise", JsonObject([user_id |-> "nobody"]))>>,
         <<ToolCall(id1, "get_experts_for_technology",
                    JsonObject([technology_name |-> "React"]))>>,
         <<ToolCall(id1, "semantic_search_for_concept",
                    JsonObject([query_text |-> "streaming"]))>>,
         <<ToolCall(id1, "get_user_expertise", Malformed)>>,
         <<ToolCall(id1, "get_user_expertise", JsonObject([user |-> "alice"]))>>,
         <<ToolCall(id1, "get_user_skills", JsonObject([user_id |-> "alice"]))>>,
         <<user, tech>>}

\* the chat completions endpoint rejects a history in which an assistant message's
\* tool call has no tool message answering it before the next other message
Answered(history, i, tool_call) ==
    \E j \in (i + 1)..Len(history) :
        /\ history[j].role = "tool"
        /\ history[j].tool_call_id = tool_call.id
        /\ \A k \in (i + 1)..j : history[k].role = "tool"

AcceptedHistory(history) ==
    \A i \in 1..Len(history) :
        "tool_calls" \in DOMAIN history[i] =>
            \A n \in 1..Len(history[i].tool_calls) :
                Answered(history, i, history[i].tool_calls[n])

\* an exception leaves route and the chat script: the script run ends with the
\* traceback rendered, and st.session_state.messages stays as the run left it;
\* `done` are the calls the step made before it raised
Raise(step, error, done) ==
    /\ displayed' = Append(displayed, [question |-> turn.question, kind |-> "exception",
                                       text |-> error])
    /\ events' = events \o done \o
                  <<[question |-> turn.question, kind |-> "raise", step |-> step]>>
    /\ UNCHANGED messages
    /\ turn' = [op |-> "none"]
    /\ rpc' = "idle"

\* questions asked in one session of the model
MaxQuestions == 2

Prompts == {"what does alice know?"}

\* "if prompt := st.chat_input(...)": the user message is appended and rendered
ChatInput ==
    /\ rpc = "idle"
    /\ Len(displayed) < MaxQuestions
    /\ \E prompt \in Prompts :
        messages' = Append(messages, [role |-> "user", content |-> prompt])
    /\ turn' = [op |-> "route", question |-> Len(displayed) + 1, llm_before |-> llm_calls]
    /\ rpc' = "plan"
    /\ UNCHANGED <<events, displayed, queryVars>>

\* OrApology with the content returned as it is
OrApology_AsIs(content) == content

\* message.content or "I apologize, ..."
OrApology(content) == IF Truthy(content) THEN content ELSE Apology

\* route, 1. the plan call: client.chat.completions.create(messages, tools, "auto"),
\* the response message appended to the history, and the direct answer returned
\* when the response has no tool call
RoutePlan ==
    /\ rpc = "plan"
    /\ \/ /\ Raise("plan", "APIError", <<>>)
          /\ UNCHANGED queryVars
       \/ /\ AcceptedHistory(messages)
          /\ \E content \in LLMReplies, tool_calls \in PlanToolCalls(turn.question) :
              LET message_dict ==
                      IF tool_calls # <<>>
                      THEN [role |-> "assistant", content |-> content,
                            tool_calls |-> tool_calls]
                      ELSE [role |-> "assistant", content |-> content]
              IN  /\ tool_calls # <<>> => content = None
                  /\ llm_calls' = llm_calls + 1
                  /\ llm_last' = [op |-> "route.plan", context |-> messages, reply |-> content]
                  /\ messages' = Append(messages, message_dict)
                  /\ events' = Append(events, [question |-> turn.question, kind |-> "llm_call",
                                               step |-> "plan", tools |-> TRUE,
                                               messages |-> messages,
                                               tool_calls |-> tool_calls])
                  /\ IF tool_calls # <<>>
                     THEN /\ turn' = turn @@ [tool_call |-> tool_calls[1]]
                          /\ rpc' = "tool"
                     ELSE /\ turn' = turn @@ [final_answer |-> OrApology(content)]
                          /\ rpc' = "display"
          /\ UNCHANGED <<ret, displayed>>

\* function_to_call(**function_args) for the two functions that are defined
CallTool(function_name, function_args) ==
    IF function_name = "get_user_expertise"
    THEN get_user_expertise(function_args.user_id)
    ELSE get_experts_for_technology(function_args.technology_name)

\* route, 2. the first tool call of the response: json.loads of its arguments,
\* the lookup in available_tools and the call of the function
RouteTool ==
    /\ rpc = "tool"
    /\ LET function_name == turn.tool_call.name
           parsed == json_loads(turn.tool_call.arguments)
       IN  IF ~parsed.ok
           THEN Raise("json.loads", "JSONDecodeError", <<>>) /\ UNCHANGED queryVars
           ELSE IF function_name \notin available_tools
           THEN Raise("available_tools", "KeyError", <<>>) /\ UNCHANGED queryVars
           ELSE IF ~Resolves(function_name)
           THEN Raise("function_to_call", "ImportError", <<>>) /\ UNCHANGED queryVars
           ELSE IF DOMAIN parsed.value # Parameters[function_name]
           THEN Raise("function_to_call", "TypeError", <<>>) /\ UNCHANGED queryVars
           ELSE \/ /\ Raise("function_to_call", "ServiceUnavailable",
                            <<[question |-> turn.question, kind |-> "tool_invoke",
                               name |-> function_name, args |-> parsed.value,
                               returned |-> None]>>)
                   /\ UNCHANGED queryVars
                \/ /\ CallTool(function_name, parsed.value)
                   /\ turn' = turn @@ [function_response |-> ret'.value]
                   /\ events' = events \o
                          <<[question |-> turn.question, kind |-> "tool_invoke",
                             name |-> function_name, args |-> parsed.value,
                             returned |-> ret'.value]>> \o
                          (IF llm_calls' > llm_calls
                           THEN <<[question |-> turn.question, kind |-> "llm_call",
                                   step |-> "tool", tools |-> FALSE,
                                   messages |-> <<>>]>>
                           ELSE <<>>)
                   /\ rpc' = "append"
                   /\ UNCHANGED <<messages, displayed>>

\* RouteAppend with a summary of the tool's output as the message content
RouteAppend_Summarised ==
    /\ rpc = "append"
    /\ messages' = Append(messages, [tool_call_id |-> turn.tool_call.id, role |-> "tool",
                                     name |-> turn.tool_call.name,
                                     content |-> "a summary"])
    /\ events' = Append(events, [question |-> turn.question, kind |-> "tool_message",
                                 name |-> turn.tool_call.name])
    /\ rpc' = "synthesize"
    /\ UNCHANGED <<turn, displayed, queryVars>>

\* route, 3. the tool's output appended to the history as a tool message
RouteAppend ==
    /\ rpc = "append"
    /\ messages' = Append(messages, [tool_call_id |-> turn.tool_call.id, role |-> "tool",
                                     name |-> turn.tool_call.name,
                                     content |-> turn.function_response])
    /\ events' = Append(events, [question |-> turn.question, kind |-> "tool_message",
                                 name |-> turn.tool_call.name])
    /\ rpc' = "synthesize"
    /\ UNCHANGED <<turn, displayed, queryVars>>

\* route, 3. the synthesis call: client.chat.completions.create(messages), no tools
RouteSynthesize ==
    /\ rpc = "synthesize"
    /\ \/ /\ Raise("synthesize", "APIError", <<>>)
          /\ UNCHANGED queryVars
       \/ /\ AcceptedHistory(messages)
          /\ \E content \in LLMReplies :
              /\ llm_calls' = llm_calls + 1
              /\ llm_last' = [op |-> "route.synthesize", context |-> messages,
                              reply |-> content]
              /\ turn' = turn @@ [final_answer |-> OrApology(content)]
              /\ events' = Append(events, [question |-> turn.question, kind |-> "llm_call",
                                           step |-> "synthesize", tools |-> FALSE,
                                           messages |-> messages])
          /\ rpc' = "display"
          /\ UNCHANGED <<messages, ret, displayed>>

\* st.markdown(final_answer) and the assistant message appended by the chat loop
ChatDisplay ==
    /\ rpc = "display"
    /\ displayed' = Append(displayed, [question |-> turn.question, kind |-> "answer",
                                       text |-> turn.final_answer])
    /\ messages' = Append(messages, [role |-> "assistant", content |-> turn.final_answer])
    /\ events' = Append(events, [question |-> turn.question, kind |-> "return",
                                 llm_calls |-> llm_calls - turn.llm_before])
    /\ turn' = [op |-> "none"]
    /\ rpc' = "idle"
    /\ UNCHANGED queryVars

\* the raw input behind the store the tools read: one pull request by alice with
\* one commit and a React file
RouterInput ==
    <<RepoItem("o/r"), PRItem(1, "alice"), CommitItem("c1", 1),
      FileItem("App.tsx", ReactPatch, <<"React">>)>>

\* a session that just started, beside a loaded graph store
InitRouter ==
    /\ LET st == process_raw_data(RouterInput)
           gn == load_nodes(<<>>, st.nodes)
       IN  /\ nodes = st.nodes
           /\ edges = st.edges
           /\ seen_nodes = st.seen_nodes
           /\ g_nodes = gn
           /\ g_rels = load_edges(gn, EmptyBag, st.edges)
    /\ calls = <<"load_nodes", "load_edges">>
    /\ repo_id = None
    /\ pr_id = None
    /\ author_id = None
    /\ commit_id = None
    /\ pc = "done"
    /\ n_items = 0
    /\ no_user_prs = {}
    /\ user_prs = {}
    /\ IdleQuery
    /\ IdleVector
    /\ messages = <<SystemMessage>>
    /\ rpc = "idle"
    /\ turn = [op |-> "none"]
    /\ events = <<>>
    /\ displayed = <<>>
    /\ IdleRest

NextRouter ==
    \/ ChatInput /\ UNCHANGED <<buildVars, storeVars, vectorVars, extractVars, classifyVars>>
    \/ RoutePlan /\ UNCHANGED <<buildVars, storeVars, vectorVars, extractVars, classifyVars>>
    \/ RouteTool /\ UNCHANGED <<buildVars, storeVars, vectorVars, extractVars, classifyVars>>
    \/ RouteAppend /\ UNCHANGED <<buildVars, storeVars, vectorVars, extractVars, classifyVars>>
    \/ RouteSynthesize /\ UNCHANGED <<buildVars, storeVars, vectorVars, extractVars, classifyVars>>
    \/ ChatDisplay /\ UNCHANGED <<buildVars, storeVars, vectorVars, extractVars, classifyVars>>

SpecRouter == InitRouter /\ [][NextRouter]_vars

-----------------------------------------------------------------------------
(* The Vector Index Builder: generate_and_store_embeddings, loader_vector.py *)

\* node for node in nodes if node.get('label') in ['PullRequest', 'Commit']
nodes_to_embed(nodes_data) ==
    SelectSeq(nodes_data, LAMBDA node : node.label \in {"PullRequest", "Commit"})

\* what collection.add does with an id the collection already holds depends on
\* the installed chromadb: it leaves the stored record as it is, or it raises
OnExisting == {"ignore", "raise"}

\* collection.add(embeddings, documents, ids) of one batch
collection_add(coll, batch, on_existing) ==
    LET ids == {batch[i].id : i \in 1..Len(batch)}
        new == {id \in ids : id \notin DOMAIN coll}
    IN  IF Cardinality(ids) # Len(batch)
        THEN [ok |-> FALSE, collection |-> coll]
        ELSE IF on_existing = "raise" /\ new # ids
        THEN [ok |-> FALSE, collection |-> coll]
        ELSE [ok |-> TRUE,
              collection |->
                  [id \in new |-> Document(batch[CHOOSE i \in 1..Len(batch) : batch[i].id = id])]
                  @@ coll]

\* "for i in range(0, len(nodes_to_embed), batch_size)": batch after batch, until
\* one raises
RECURSIVE store_batches(_, _, _, _)
store_batches(coll, to_embed, batch_size, on_existing) ==
    IF to_embed = <<>> THEN [outcome |-> "done", collection |-> coll]
    ELSE LET n     == IF Len(to_embed) <= batch_size THEN Len(to_embed) ELSE batch_size
             added == collection_add(coll, SubSeq(to_embed, 1, n), on_existing)
         IN  IF added.ok
             THEN store_batches(added.collection, SubSeq(to_embed, n + 1, Len(to_embed)),
                                batch_size, on_existing)
             ELSE [outcome |-> "raised", collection |-> added.collection]

\* batch_size = 100
BatchSize == 100

\* the batch sizes the builder is run with: the program's, and sizes that split
\* the node lists of the model into several batches
BatchSizes == {1, 2, BatchSize}

\* runs of the builder in one session of the model
MaxRuns == 2

\* the raw inputs behind the nodes.json files the builder reads: a pull request
\* with one commit, the same after its title was edited upstream, with a second
\* commit, another pull request, and both pull requests
EditedPR == [PRItem(1, "alice") EXCEPT !.data.title = "PR 1 (edited)"]

VectorInputs ==
    {<<RepoItem("o/r"), PRItem(1, "alice"), CommitItem("c1", 1)>>,
     <<RepoItem("o/r"), EditedPR, CommitItem("c1", 1)>>,
     <<RepoItem("o/r"), PRItem(1, "alice"), CommitItem("c1", 1), CommitItem("c2", 2)>>,
     <<RepoItem("o/r"), PRItem(2, "alice"), CommitItem("c2", 2)>>,
     <<RepoItem("o/r"), EditedPR, CommitItem("c1", 1), PRItem(2, "alice"),
       CommitItem("c2", 2)>>}

\* generate_and_store_embeddings()
GenerateAndStoreEmbeddings ==
    /\ (IF index_run.op = "none" THEN 0 ELSE index_run.run) < MaxRuns
    /\ \E items \in VectorInputs, batch_size \in BatchSizes, on_existing \in OnExisting :
        LET nodes_data == process_raw_data(items).nodes
            stored == store_batches(collection, nodes_to_embed(nodes_data),
                                    batch_size, on_existing)
        IN  /\ collection' = stored.collection
            /\ index_run' = [op |-> "generate_and_store_embeddings",
                             run |-> IF index_run.op = "none" THEN 1 ELSE index_run.run + 1,
                             nodes |-> nodes_data, batch_size |-> batch_size,
                             before |-> collection, outcome |-> stored.outcome]
    /\ UNCHANGED <<graph_queries, retrieved>>

InitVector == InitBuild /\ IdleStore /\ IdleQuery /\ IdleVector /\ IdleRouter /\ IdleRest

NextVector ==
    GenerateAndStoreEmbeddings /\ UNCHANGED <<buildVars, storeVars, queryVars, routerVars, extractVars, classifyVars>>

SpecVector == InitVector /\ [][NextVector]_vars

-----------------------------------------------------------------------------
(* The extractor: get_target_repo and extract_pull_requests, extractor.py *)

\* the module-level names extractor.py imports
ExtractorImports ==
    {"os", "time", "json", "load_dotenv", "Github", "RateLimitExceededException",
     "UnknownObjectException", "pprint"}

\* wait_for_rate_limit_reset(github_instance): line 34 reads the name datetime,
\* which raises NameError when the module does not bind it; otherwise the call
\* sleeps until the reset time plus 5 seconds and returns
wait_for_rate_limit_reset ==
    IF "datetime" \in ExtractorImports THEN "slept" ELSE "NameError"

\* MAX_PRS_TO_FETCH = 25
MAX_PRS_TO_FETCH == 25

\* pull_requests[:max_prs]
pr_iterator(pull_requests, max_prs) ==
    IF Len(pull_requests) <= max_prs THEN pull_requests
    ELSE SubSeq(pull_requests, 1, max_prs)

\* what a call of the source-control API may do
APIOutcomes == {"ok", "rate_limit", "error"}

\* the statements of the try block an exception may come from: the basic info
\* (lines 75-81), the comments (84-86), the commits and their files (89-103)
Stages == {"info", "comments", "commits"}

\* pr_info when line 105 appends it
PrInfo(pr) ==
    [record |-> PRRecord(pr.number, extract_author(pr.user)),
     comments |-> <<>>,
     commits |-> <<CommitRecord("c" \o ToString(pr.number), pr.number)>>]

\* the try block of one merged pull request: pr_data.append(pr_info) is its last
\* statement
try_block(data, pr, outcome, stage) ==
    IF outcome = "ok" THEN Append(data, PrInfo(pr)) ELSE data

\* get_target_repo: one github_instance.get_repo attempt and its handler
GetTargetRepo ==
    /\ ex_pc = "start"
    /\ \E outcome \in APIOutcomes \cup {"unknown"} :
        /\ ex_hist' = Append(ex_hist, [what |-> "repo", number |-> 0,
                                       outcome |-> outcome, stage |-> "get_repo"])
        /\ ex_pc' = CASE outcome = "ok" -> "loop"
                      [] outcome = "rate_limit" ->
                            IF wait_for_rate_limit_reset = "slept" THEN "start" ELSE "raised"
                      [] OTHER -> "no_repo"
    /\ UNCHANGED <<upstream, ex_i, ex_data>>

\* extract_pull_requests: one iteration of "for pr in pr_iterator"
ExtractPR ==
    /\ ex_pc = "loop"
    /\ ex_i < Len(pr_iterator(upstream, MAX_PRS_TO_FETCH))
    /\ LET pr == pr_iterator(upstream, MAX_PRS_TO_FETCH)[ex_i + 1] IN
       IF ~pr.merged
       THEN /\ ex_hist' = Append(ex_hist, [what |-> "pr", number |-> pr.number,
                                           outcome |-> "not_merged", stage |-> "merged"])
            /\ ex_i' = ex_i + 1
            /\ UNCHANGED <<ex_pc, ex_data>>
       ELSE \E outcome \in APIOutcomes, stage \in Stages :
            /\ outcome = "ok" => stage = "commits"
            /\ ex_hist' = Append(ex_hist, [what |-> "pr", number |-> pr.number,
                                           outcome |-> outcome, stage |-> stage])
            /\ ex_data' = try_block(ex_data, pr, outcome, stage)
            /\ IF outcome = "rate_limit" /\ wait_for_rate_limit_reset # "slept"
               THEN ex_pc' = "raised" /\ UNCHANGED ex_i
               ELSE ex_pc' = ex_pc /\ ex_i' = ex_i + 1
    /\ UNCHANGED upstream

\* "return pr_data", and the script writes github_data.json
ExtractReturn ==
    /\ ex_pc = "loop"
    /\ ex_i = Len(pr_iterator(upstream, MAX_PRS_TO_FETCH))
    /\ ex_pc' = "returned"
    /\ UNCHANGED <<upstream, ex_i, ex_data, ex_hist>>

\* pull requests in the repository's listing in one run of the model
MaxPRs == 3

Users == {"alice", None}

UpstreamPR(number, merged, user) == [number |-> number, merged |-> merged, user |-> user]

\* the listings: pull requests numbered in listing order, merged or only
\* closed, with or without a user
Listings ==
    UNION {{[i \in 1..n |-> UpstreamPR(i, f[i][1], f[i][2])] :
               f \in [1..n -> BOOLEAN \X Users]} : n \in 0..MaxPRs}

InitExtract ==
    /\ InitBuild /\ IdleStore /\ IdleQuery /\ IdleVector /\ IdleRouter /\ IdleClassify
    /\ upstream \in Listings
    /\ ex_pc = "start"
    /\ ex_i = 0
    /\ ex_data = <<>>
    /\ ex_hist = <<>>

NextExtract ==
    \/ GetTargetRepo /\ UNCHANGED <<buildVars, storeVars, queryVars, vectorVars, routerVars, classifyVars>>
    \/ ExtractPR /\ UNCHANGED <<buildVars, storeVars, queryVars, vectorVars, routerVars, classifyVars>>
    \/ ExtractReturn /\ UNCHANGED <<buildVars, storeVars, queryVars, vectorVars, routerVars, classifyVars>>

SpecExtract == InitExtract /\ [][NextExtract]_vars

-----------------------------------------------------------------------------
(* The classifier on its own: analyze_patch_for_tech applied to one diff text *)

\* tokens of a diff text in one run of the model
MaxTokens == 5

\* the words a diff text is made of: the keywords, one of them in two spellings,
\* and the module names of the catalog entries the model carries
PatchTokens == {"import", "IMPORT", "from", "as", "pandas", "torch", "'react'"}

RECURSIVE TextsOf(_)
TextsOf(n) ==
    IF n = 0 THEN {<<>>}
    ELSE TextsOf(n - 1) \cup
         {Append(t, tok) : t \in {u \in TextsOf(n - 1) : Len(u) = n - 1}, tok \in PatchTokens}

\* the values of file_data.get('patch'): None, the empty string, a diff text
DiffTexts == {NoPatch} \cup {PatchOf(t) : t \in TextsOf(MaxTokens)}

\* found_tech = analyze_patch_for_tech(patch_text)
AnalyzePatch ==
    /\ cl_patch.op = "input"
    /\ cl_found' = analyze_patch_for_tech(cl_patch.patch)
    /\ cl_patch' = [cl_patch EXCEPT !.op = "analyzed"]

InitClassify ==
    /\ InitBuild /\ IdleStore /\ IdleQuery /\ IdleVector /\ IdleRouter /\ IdleExtract
    /\ cl_patch \in {[op |-> "input", patch |-> p] : p \in DiffTexts}
    /\ cl_found = {}

NextClassify ==
    AnalyzePatch /\ UNCHANGED <<buildVars, storeVars, queryVars, vectorVars, routerVars, extractVars>>

SpecClassify == InitClassify /\ [][NextClassify]_vars

-----------------------------------------------------------------------------
(* Properties of the Graph Builder *)

EdgeIdx == DOMAIN edges
NodeIdx == DOMAIN nodes

IsContribution(e) == e.relationship = "CONTRIBUTED_TO_TECHNOLOGY"

\* how many entries of the edge list equal e
Copies(e) == Cardinality({i \in EdgeIdx : edges[i] = e})

HasNode(label, id) == \E i \in NodeIdx : nodes[i].label = label /\ nodes[i].id = id

\* C1: the node list holds at most one node for each (label, id) pair, whatever
\* the input repeats.
C1_NodeKeysUnique ==
    \A i, j \in NodeIdx :
        (nodes[i].label = nodes[j].label /\ nodes[i].id = nodes[j].id) => i = j

\* C1 witness: a run has returned after reading the same file of the same commit
\* twice, with a technology detected both times.
C1_Witness ==
    /\ pc = "done"
    /\ \E i, j \in EdgeIdx : i < j /\ edges[i] = edges[j] /\ edges[i].relationship = "MODIFIED"
    /\ \E i, j \in EdgeIdx : i < j /\ edges[i] = edges[j] /\ IsContribution(edges[i])

\* the commit was read once in the whole input, and each of its files once
ReadOnce(commit) ==
    /\ Cardinality({i \in EdgeIdx : edges[i].relationship = "INCLUDES"
                                    /\ edges[i].target = commit}) = 1
    /\ \A i \in EdgeIdx :
        (edges[i].relationship = "MODIFIED" /\ edges[i].source = commit)
        => Copies(edges[i]) = 1

\* C2 (as claimed): for a commit processed once under a pull request with an
\* author, each detected technology has exactly one CONTRIBUTED_TO_TECHNOLOGY
\* edge stamped with that pull request and commit, however many files of the
\* commit match the technology.
C2_OneEdgePerCommitOccurrence ==
    pc = "done" =>
        \A i \in EdgeIdx :
            (IsContribution(edges[i]) /\ ReadOnce(edges[i].properties.in_commit))
            => Copies(edges[i]) = 1

\* C3 (as claimed): no two AUTHORED, INCLUDES or MODIFIED edges of the returned
\* edge list share (source, target, relationship).
C3_PlainEdgesDeduplicated ==
    pc = "done" =>
        \A i, j \in EdgeIdx :
            (/\ edges[i].relationship \in {"AUTHORED", "INCLUDES", "MODIFIED"}
             /\ edges[i].source = edges[j].source
             /\ edges[i].target = edges[j].target
             /\ edges[i].relationship = edges[j].relationship)
            => i = j

\* C4 (as claimed): a pull request whose author is null or missing has its
\* PullRequest node but no AUTHORED edge and no CONTRIBUTED_TO_TECHNOLOGY edge.
C4_NoAuthorNoAuthorEdges ==
    \A p \in no_user_prs \ user_prs :
        /\ HasNode("PullRequest", p)
        /\ \A i \in EdgeIdx :
            /\ ~(edges[i].relationship = "AUTHORED" /\ edges[i].target = p)
            /\ ~(IsContribution(edges[i]) /\ edges[i].properties.in_pr = p)

\* C5: every CONTRIBUTED_TO_TECHNOLOGY edge runs from the id of a User node to the
\* id of a Technology node of the same node list.
C5_ContributionEndpointsExist ==
    \A i \in EdgeIdx :
        IsContribution(edges[i]) =>
            /\ HasNode("User", edges[i].source)
            /\ HasNode("Technology", edges[i].target)

\* C5 witness: a returned edge list with a contribution edge of a pull request
\* that was read twice, under two authors.
C5_Witness ==
    /\ pc = "done"
    /\ \E i, j \in EdgeIdx :
        /\ IsContribution(edges[i])
        /\ edges[j].relationship = "AUTHORED"
        /\ edges[j].target = edges[i].properties.in_pr
        /\ edges[j].source # edges[i].source

-----------------------------------------------------------------------------
(* Properties of the loader *)

\* the store after one load_nodes and one load_edges into an empty store
LoadedNodes == load_nodes(<<>>, nodes)
LoadedRels == load_edges(LoadedNodes, EmptyBag, edges)

\* number of relationships of a type between two nodes
RelCount(gr, source, type, target) ==
    LET hits == {r \in BagToSet(gr) : r.source = source /\ r.type = type /\ r.target = target}
        RECURSIVE Sum(_)
        Sum(S) == IF S = {} THEN 0
                  ELSE LET r == CHOOSE r \in S : TRUE IN CopiesIn(r, gr) + Sum(S \ {r})
    IN  Sum(hits)

RelTypes == {"AUTHORED", "INCLUDES", "MODIFIED", "CONTRIBUTED_TO_TECHNOLOGY"}

\* C6 (as claimed): after load_nodes loads a node list with unique (label, id)
\* pairs into an empty store, the store holds one node per (label, id) pair, each
\* with the one label of its pair.
C6_OneStoreNodePerLabelAndId ==
    (calls = <<"load_nodes">> /\ C1_NodeKeysUnique) =>
        /\ Cardinality(DOMAIN g_nodes) = Len(nodes)
        /\ \A id \in DOMAIN g_nodes : Cardinality(g_nodes[id].labels) = 1

\* C7 (as claimed): load_nodes and load_edges run twice with the same collections
\* and no reset leave the same nodes, and the same number of relationships of each
\* type between each pair of nodes, as running them once.
C7_SecondLoadChangesNothing ==
    calls = <<"load_nodes", "load_edges", "load_nodes", "load_edges">> =>
        /\ g_nodes = LoadedNodes
        /\ \A s, t \in DOMAIN g_nodes, ty \in RelTypes :
            RelCount(g_rels, s, ty, t) = RelCount(LoadedRels, s, ty, t)

-----------------------------------------------------------------------------
(* Properties of the read operations *)

\* the store has relationships of the type out of the node
HasOutgoing(id, type) == \E r \in BagToSet(g_rels) : r.source = id /\ r.type = type

\* the store has a contribution of some User node into the technology
HasContributors(technology_name) ==
    \E r \in BagToSet(g_rels) :
        /\ r.type = "CONTRIBUTED_TO_TECHNOLOGY"
        /\ r.target = technology_name
        /\ HasLabel(g_nodes, r.source, "User")

\* C8: get_user_expertise for a user id with no User node, or with no
\* CONTRIBUTED_TO_TECHNOLOGY edge, returns the 'no data found' text, and
\* get_experts_for_technology for a technology without contributing users returns
\* the 'no users found' text; neither calls the language model.
C8_NotFoundSentinels ==
    /\ (/\ ret.op = "get_user_expertise"
        /\ \/ ~HasLabel(g_nodes, ret.arg, "User")
           \/ ~HasOutgoing(ret.arg, "CONTRIBUTED_TO_TECHNOLOGY"))
       => (ret.value = NoDataForUser /\ llm_calls = ret.llm_before)
    /\ (/\ ret.op = "get_experts_for_technology"
        /\ ~HasContributors(ret.arg))
       => (ret.value = NoUsersFound(ret.arg) /\ llm_calls = ret.llm_before)

\* C8 witness: a user with a User node, an authored pull request with commits and
\* no contribution edge was looked up and got the sentinel.
C8_Witness ==
    /\ ret.op = "get_user_expertise"
    /\ HasLabel(g_nodes, ret.arg, "User")
    /\ HasOutgoing(ret.arg, "AUTHORED")
    /\ ~HasOutgoing(ret.arg, "CONTRIBUTED_TO_TECHNOLOGY")
    /\ ret.value = NoDataForUser

\* the latest RecentLimit commit paths of a user: none outside is later than one inside
Latest(paths) ==
    {S \in RecentChoices(paths) :
        \A inside \in S, outside \in paths \ S :
            Prop(g_nodes, inside.commit, "committed_at")
                >= Prop(g_nodes, outside.commit, "committed_at")}

\* C9 (as claimed): the evidence of get_user_expertise holds at most 10 commit
\* messages, and for a user with more than 10 commits they are the messages of the
\* 10 commits with the latest committed timestamps.
C9_RecentCommitsAreLatest ==
    (ret.op = "get_user_expertise" /\ ret.value # NoDataForUser) =>
        LET paths == CommitPaths(g_nodes, g_rels, ret.arg) IN
        /\ Cardinality(ret.context.recent) <= RecentLimit
        /\ Cardinality(paths) > RecentLimit =>
            \E S \in Latest(paths) :
                ret.context.recent = {Strip(Prop(g_nodes, path.commit, "message")) : path \in S}

\* C10: generate_answer with an empty context returns the fixed 'could not find
\* relevant information' message and calls the model zero times; with a non-empty
\* context it calls the model once, with that context, and returns the call's
\* content unchanged.
C10_EmptyContextNoCall ==
    ret.op = "generate_answer" =>
        IF ret.context = <<>>
        THEN ret.value = NoRelevantInfo /\ llm_calls = ret.llm_before
        ELSE /\ llm_calls = ret.llm_before + 1
             /\ llm_last.op = "generate_answer"
             /\ llm_last.query = ret.arg
             /\ llm_last.context = ret.context
             /\ ret.value = llm_last.reply

\* C10 witness: generate_answer returned the fixed message for an empty context
\* after an earlier question had gone to the model and come back with null content.
C10_Witness ==
    /\ ret.op = "generate_answer"
    /\ ret.context = <<>>
    /\ ret.value = NoRelevantInfo
    /\ llm_calls = 1
    /\ llm_last.op = "generate_answer"
    /\ llm_last.reply = None

-----------------------------------------------------------------------------
(* Properties of the Retrieval Engine, checked under SpecRetrieve *)

\* C11: a retrieve_context call whose semantic search returned no candidate id
\* returned the empty context string and ran no graph query
C11_NoCandidatesNoGraphQuery ==
    (retrieved.op = "retrieve_context" /\ retrieved.candidate_ids = <<>>) =>
        /\ retrieved.value = <<>>
        /\ graph_queries = retrieved.queries_before

\* retrieve_context returned after an empty semantic search over an empty
\* collection, beside a loaded graph store
C11_Witness ==
    /\ retrieved.op = "retrieve_context"
    /\ retrieved.candidate_ids = <<>>
    /\ collection = <<>>
    /\ DOMAIN g_nodes # {}

\* position of a candidate id in the list the semantic search returned
CandidatePosition(id) ==
    CHOOSE i \in 1..Len(retrieved.candidate_ids) : retrieved.candidate_ids[i] = id

\* C12: the evidence lines of a context string follow the candidate order: a line
\* of a nearer candidate never comes after a line of a farther one
C12_LinesInCandidateOrder ==
    retrieved.op = "retrieve_context" =>
        \A i, j \in 1..Len(retrieved.enriched_context) :
            i < j => CandidatePosition(retrieved.enriched_context[i].node)
                         <= CandidatePosition(retrieved.enriched_context[j].node)

\* the AUTHORED relationships of Users whose pull request is `id` or includes it
AuthoringRels(id) ==
    {a \in BagToSet(g_rels) :
        /\ a.type = "AUTHORED"
        /\ HasLabel(g_nodes, a.source, "User")
        /\ HasLabel(g_nodes, a.target, "PullRequest")
        /\ \/ a.target = id
           \/ \E inc \in BagToSet(g_rels) :
                 inc.type = "INCLUDES" /\ inc.source = a.target /\ inc.target = id}

\* the candidate ids of the last call
CandidateIds == {retrieved.candidate_ids[i] : i \in 1..Len(retrieved.candidate_ids)}

\* a candidate id that is missing from the graph store or has no authoring User
Orphaned(id) == id \notin DOMAIN g_nodes \/ AuthoringRels(id) = {}

\* C13: every evidence line was made from one candidate id of the semantic search
\* that is a node of the graph store with an authoring User, whose id the line
\* names; an orphaned candidate id gave no line, and the call returned
C13_LinesTraceable ==
    retrieved.op = "retrieve_context" =>
        /\ Len(retrieved.value) = Len(retrieved.enriched_context)
        /\ \A i \in 1..Len(retrieved.value) :
              LET item == retrieved.enriched_context[i] IN
              /\ item.node \in CandidateIds
              /\ item.node \in DOMAIN g_nodes
              /\ \E a \in AuthoringRels(item.node) :
                    a.source = item.author /\ a.target = item.pr
              /\ retrieved.value[i].author = item.author
        /\ \A id \in CandidateIds :
              Orphaned(id) =>
                  \A i \in 1..Len(retrieved.enriched_context) :
                      retrieved.enriched_context[i].node # id

\* a call whose candidates were an orphaned id and an id that gave an evidence line
C13_Witness ==
    /\ retrieved.op = "retrieve_context"
    /\ \E id \in CandidateIds : Orphaned(id)
    /\ Len(retrieved.value) >= 1
    /\ graph_queries = retrieved.queries_before + 1

\* the technologies the author has a CONTRIBUTED_TO_TECHNOLOGY relationship to
\* whose in_pr property names the pull request
ContributedInPR(author, pr) ==
    {r.target : r \in {r \in BagToSet(g_rels) :
                          /\ r.type = "CONTRIBUTED_TO_TECHNOLOGY"
                          /\ r.source = author
                          /\ r.props.in_pr = pr}}

\* C14: the technology list of an evidence line holds exactly the technologies the
\* line's author contributed to in the line's pull request, and is 'N/A' when
\* there is none
C14_TechnologiesOfThePR ==
    retrieved.op = "retrieve_context" =>
        \A i \in 1..Len(retrieved.value) :
            LET item == retrieved.enriched_context[i]
                techs == ContributedInPR(item.author, item.pr)
            IN  retrieved.value[i].technologies =
                    IF techs = {} THEN {"N/A"} ELSE techs

\* two lines of a commit that two pull requests of alice include: the line of the
\* first pull request lists React, the line of the second, where she contributed
\* to no technology, 'N/A'
C14_Witness ==
    /\ retrieved.op = "retrieve_context"
    /\ \E i, j \in 1..Len(retrieved.value) :
          /\ retrieved.enriched_context[i].node = retrieved.enriched_context[j].node
          /\ retrieved.enriched_context[i].author = "alice"
          /\ retrieved.enriched_context[j].author = "alice"
          /\ retrieved.enriched_context[i].pr = "o/r/pr/1"
          /\ retrieved.enriched_context[j].pr = "o/r/pr/2"
          /\ retrieved.value[i].technologies = {"React"}
          /\ retrieved.value[j].technologies = {"N/A"}

-----------------------------------------------------------------------------
(* Properties of the chat application, checked under SpecRouter *)

\* C15: the text route returns is never empty or null, and it is the apology
\* string when the content of the model response it returns from (the plan
\* response without tool calls, or the synthesis response) is empty or null
C15_RouteReturnsText ==
    rpc = "display" =>
        /\ turn.final_answer \notin {"", None}
        /\ llm_last.reply \in {"", None} => turn.final_answer = Apology
        /\ llm_last.reply \notin {"", None} => turn.final_answer = llm_last.reply

\* route returned the apology for an empty plan response in the first question
\* and returns it for a null synthesis response in the second
C15_Witness ==
    /\ rpc = "display"
    /\ Len(displayed) = 1
    /\ displayed[1].kind = "answer"
    /\ displayed[1].text = Apology
    /\ messages[3] = [role |-> "assistant", content |-> ""]
    /\ llm_last.op = "route.synthesize"
    /\ llm_last.reply = None
    /\ turn.final_answer = Apology

\* the events of question q of the given kind and step
IsCall(e, q, step) == e.question = q /\ e.kind = "llm_call" /\ e.step = step
IsKind(e, q, kind) == e.question = q /\ e.kind = kind

\* C16: a synthesis call is made without the tool catalog, after the plan call
\* selected a tool, the mapped function was invoked with the arguments of the
\* first tool call, and its raw output was appended as a tool message with the
\* tool's name and the call id; the call's messages are the plan call's with the
\* tool-selection message and that tool message added, and its text (the apology
\* when it is empty) is the final answer.  A question whose plan response has no
\* tool call has no function invoked and no synthesis call.
C16_ToolPathOrder ==
    /\ \A k \in 1..Len(events) :
          IsCall(events[k], events[k].question, "synthesize") =>
              LET q    == events[k].question
                  hist == events[k].messages
                  n    == Len(hist)
              IN  /\ events[k].tools = FALSE
                  /\ \E p, i, j \in 1..k :
                        /\ p < i /\ i < j /\ j < k
                        /\ IsCall(events[p], q, "plan") /\ events[p].tools = TRUE
                        /\ IsKind(events[i], q, "tool_invoke")
                        /\ IsKind(events[j], q, "tool_message")
                        /\ events[p].tool_calls # <<>>
                        /\ events[i].name = events[p].tool_calls[1].name
                        /\ events[i].args = events[p].tool_calls[1].arguments.value
                        /\ hist = events[p].messages \o
                               <<[role |-> "assistant", content |-> None,
                                  tool_calls |-> events[p].tool_calls],
                                 [tool_call_id |-> events[p].tool_calls[1].id,
                                  role |-> "tool",
                                  name |-> events[i].name,
                                  content |-> events[i].returned]>>
    /\ (rpc = "display" /\ llm_last.op = "route.synthesize") =>
          turn.final_answer = IF llm_last.reply \in {"", None} THEN Apology
                              ELSE llm_last.reply
    /\ \A p \in 1..Len(events) :
          (IsCall(events[p], events[p].question, "plan") /\ events[p].tool_calls = <<>>) =>
              \A k \in 1..Len(events) :
                  /\ ~IsKind(events[k], events[p].question, "tool_invoke")
                  /\ ~IsCall(events[k], events[p].question, "synthesize")

\* the first question was answered directly, the second went through a tool and
\* the synthesis call, whose text is about to be displayed
C16_Witness ==
    /\ rpc = "display"
    /\ Len(displayed) = 1
    /\ displayed[1].kind = "answer"
    /\ llm_last.op = "route.synthesize"
    /\ turn.final_answer = "an answer"
    /\ turn.tool_call.name = "get_experts_for_technology"
    /\ messages[Len(messages)].role = "tool"

\* the language-model calls made for question q so far
CallsFor(q) == {k \in 1..Len(events) : events[k].question = q /\ events[k].kind = "llm_call"}

\* C17: a question triggers at most two language-model calls, the plan call and
\* the synthesis call: none is made inside the selected tool function
C17_AtMostTwoCalls ==
    \A k \in 1..Len(events) :
        /\ Cardinality(CallsFor(events[k].question)) <= 2
        /\ events[k].kind = "llm_call" => events[k].step \in {"plan", "synthesize"}

\* a tool call of the catalog whose arguments are a JSON object with exactly the
\* required key of the tool's schema
Conforming(tool_call) ==
    /\ tool_call.name \in DOMAIN ToolDefinitions
    /\ tool_call.arguments.json = "object"
    /\ DOMAIN tool_call.arguments.value = ToolDefinitions[tool_call.name]

\* C18: once route is past the dispatch of a plan response whose first tool call
\* names a catalog tool with schema-conforming arguments, the tool's function has
\* been invoked with them
C18_CatalogToolsInvoked ==
    \A p \in 1..Len(events) :
        (/\ IsCall(events[p], events[p].question, "plan")
         /\ events[p].tool_calls # <<>>
         /\ Conforming(events[p].tool_calls[1])
         /\ ~(rpc = "tool" /\ turn.question = events[p].question)) =>
            \E i \in 1..Len(events) :
                /\ p < i
                /\ IsKind(events[i], events[p].question, "tool_invoke")
                /\ events[i].name = events[p].tool_calls[1].name
                /\ events[i].args = events[p].tool_calls[1].arguments.value

\* C19: whatever failed while a question was routed, the chat surface rendered
\* an answer text for it, the apology when nothing else
C19_FailureShowsApology ==
    \A i \in 1..Len(displayed) :
        /\ displayed[i].kind = "answer"
        /\ displayed[i].text \notin {"", None}

-----------------------------------------------------------------------------
(* Properties of the Vector Index Builder, checked under SpecVector *)

\* the pull request and commit nodes of the node list of the last run
Embedded ==
    {node \in {index_run.nodes[i] : i \in 1..Len(index_run.nodes)} :
        node.label \in {"PullRequest", "Commit"}}

\* C20: after a run of generate_and_store_embeddings, the collection holds for
\* every pull request and commit of the run's node list the document built from
\* that list's properties, whether the id was stored before the run or not and
\* whatever the batch size
C20_RerunUpserts ==
    index_run.op = "generate_and_store_embeddings" =>
        \A node \in Embedded :
            /\ node.id \in DOMAIN collection
            /\ collection[node.id] = Document(node)

-----------------------------------------------------------------------------
(* Properties of the extractor, checked under SpecExtract *)

\* C21: an operation that hit the rate limit (the repository fetch, or the
\* processing of a pull request) is followed by a wait that returns and by one
\* more attempt of the same operation, which is not retried again
C21_RateLimitRetriedOnce ==
    /\ ex_pc # "raised"
    /\ \A k \in 1..Len(ex_hist) :
          ex_hist[k].outcome = "rate_limit" =>
              IF k < Len(ex_hist)
              THEN /\ ex_hist[k + 1].what = ex_hist[k].what
                   /\ ex_hist[k + 1].number = ex_hist[k].number
              ELSE \/ ex_hist[k].what = "repo" /\ ex_pc = "start"
                   \/ /\ ex_hist[k].what = "pr"
                      /\ ex_pc = "loop"
                      /\ ex_i + 1 = ex_hist[k].number

\* the records of the pull requests the history shows as processed without failure
RECURSIVE Processed(_)
Processed(hist) ==
    IF hist = <<>> THEN <<>>
    ELSE LET e == hist[Len(hist)]
             before == Processed(SubSeq(hist, 1, Len(hist) - 1))
         IN  IF e.what = "pr" /\ e.outcome = "ok"
             THEN Append(before, PrInfo(upstream[e.number]))
             ELSE before

\* the loop iterations the history shows
Iterations == Len(SelectSeq(ex_hist, LAMBDA e : e.what = "pr"))

\* C22: a pull request whose processing failed does not end the extraction: it
\* is skipped and the loop goes on to the end of the iterator, and the result
\* list holds exactly the complete records of the pull requests processed
\* without failure, in order
C22_FailedPRSkipped ==
    /\ ~(ex_pc = "raised" /\ ex_hist[Len(ex_hist)].what = "pr")
    /\ ex_pc \in {"loop", "returned"} => ex_i = Iterations
    /\ ex_pc = "returned" => Iterations = Len(upstream)
    /\ ex_data = Processed(ex_hist)

-----------------------------------------------------------------------------
(* Properties of the classifier, checked under SpecClassify *)

\* the module a catalog entry stands for
ModuleOf(tech) ==
    CASE tech = "React"   -> "react"
      [] tech = "Pandas"  -> "pandas"
      [] tech = "PyTorch" -> "torch"

\* the text holds an import of the library, in any letter case: "import M",
\* "from M import ...", or "import ... from 'M'"
ImportsLibrary(text, tech) ==
    \E i \in DOMAIN text :
        \/ /\ i + 1 \in DOMAIN text
           /\ Lower(text[i]) = "import"
           /\ Lower(text[i + 1]) = ModuleOf(tech)
        \/ /\ i + 2 \in DOMAIN text
           /\ Lower(text[i]) = "from"
           /\ Lower(text[i + 1]) = ModuleOf(tech)
           /\ Lower(text[i + 2]) = "import"
        \/ /\ i + 3 \in DOMAIN text
           /\ Lower(text[i]) = "import"
           /\ Lower(text[i + 2]) = "from"
           /\ Quoted(text[i + 3], ModuleOf(tech))

\* C23 as stated: the set the classifier returns holds every cataloged library
\* the diff text imports, whatever the form of the import, the letter case and
\* whatever else matches; it is empty for an absent or empty text, and it never
\* holds a name outside the catalog
C23_ImportedLibrariesDetected ==
    cl_patch.op = "analyzed" =>
        /\ cl_found \subseteq TECHNOLOGY_PATTERNS
        /\ (~cl_patch.patch.present \/ cl_patch.patch.text = <<>>) => cl_found = {}
        /\ \A tech \in TECHNOLOGY_PATTERNS :
              (cl_patch.patch.present /\ ImportsLibrary(cl_patch.patch.text, tech))
                  => tech \in cl_found

\* the words of the text from position i, n of them, in lower case
Words(text, i, n) ==
    IF i + n - 1 \in DOMAIN text THEN [k \in 1..n |-> Lower(text[i + k - 1])] ELSE <<>>

\* the text holds the import in the form the entry's signature is written for:
\* "import torch", "import pandas as", "import <names> from 'react'"
SignatureCovers(text, tech) ==
    \E i \in DOMAIN text :
        CASE tech = "PyTorch" -> Words(text, i, 2) = <<"import", "torch">>
          [] tech = "Pandas"  -> Words(text, i, 3) = <<"import", "pandas", "as">>
          [] tech = "React"   ->
                /\ Words(text, i, 1) = <<"import">>
                /\ \E j \in DOMAIN text :
                      /\ j > i + 1
                      /\ Words(text, j, 2) \in {<<"from", "'react'">>, <<"from", "\"react\"">>}

\* C23, amended: the set the classifier returns holds every cataloged library
\* the diff text imports in the form its signature covers, whatever the letter
\* case and whatever else matches, and holds no other library; it is empty for
\* an absent or empty text, and it never holds a name outside the catalog
C23_SignatureImportsDetected ==
    cl_patch.op = "analyzed" =>
        /\ cl_found \subseteq TECHNOLOGY_PATTERNS
        /\ (~cl_patch.patch.present \/ cl_patch.patch.text = <<>>) => cl_found = {}
        /\ \A tech \in TECHNOLOGY_PATTERNS :
              (cl_patch.patch.present /\ SignatureCovers(cl_patch.patch.text, tech))
                  <=> tech \in cl_found

\* a text with two imports, one in capitals, was analyzed: both libraries are in
\* the set
C23_Witness ==
    /\ cl_patch.op = "analyzed"
    /\ cl_patch.patch = PatchOf(<<"IMPORT", "torch", "import", "pandas", "as">>)
    /\ cl_found = {"PyTorch", "Pandas"}

-----------------------------------------------------------------------------
(* Properties of the conversation history, checked under SpecRouter *)

\* the positions of the assistant messages that select tools
ToolSelections == {i \in 1..Len(messages) : "tool_calls" \in DOMAIN messages[i]}

\* C24: when route is about to issue the synthesis call, every tool call of the
\* turn's tool-selection message has a tool message with its call id after it
C24_AllToolCallsAnswered ==
    rpc = "synthesize" =>
        \A i \in ToolSelections :
            (\A k \in ToolSelections : k <= i) =>
                \A n \in 1..Len(messages[i].tool_calls) :
                    \E j \in (i + 1)..Len(messages) :
                        /\ messages[j].role = "tool"
                        /\ messages[j].tool_call_id = messages[i].tool_calls[n].id

\* the assistant messages of the history that select no tool
AnswerMessages ==
    SelectSeq(messages, LAMBDA msg : msg.role = "assistant" /\ "tool_calls" \notin DOMAIN msg)

\* the answers shown so far
Answers == SelectSeq(displayed, LAMBDA d : d.kind = "answer")

\* a step keeps the messages the history already holds
AppendOnly ==
    /\ Len(messages') >= Len(messages)
    /\ SubSeq(messages', 1, Len(messages)) = messages

\* between two questions, the history holds one assistant message without tool
\* calls for each answered question, with the answer's text
OneAnswerMessageEach ==
    rpc = "idle" =>
        /\ Len(AnswerMessages) = Len(Answers)
        /\ \A k \in 1..Len(Answers) : AnswerMessages[k].content = Answers[k].text

\* C25: the history is append-only, and each handled question adds exactly one
\* assistant message without tool calls, which carries its final answer
C25_AnswerRecordedOnce == [][AppendOnly]_vars /\ []OneAnswerMessageEach

====
